---- MODULE Spec2Model ----
(***************************************************************************)
(* A model of SboArray<T, size_threshold> (src/sbo_array.h): a vector with *)
(* an inline buffer of size_threshold slots that moves to a heap block     *)
(* once its capacity exceeds the threshold.                                *)
(*                                                                         *)
(* Memory is modelled at the level the code works at: every object is laid *)
(* out as { storage_ (the union of stack_buffer and heap_ptr), count_,     *)
(* capacity_, using_heap_, cached_data_ptr_ } with a word-sized element    *)
(* type, pointers are addresses (natural numbers), and every element       *)
(* access goes through cached_data_ptr_ + index.  An index past the inline *)
(* buffer therefore lands on the object's own fields, and an access        *)
(* through a stale cached pointer lands in whatever block is there.        *)
(* For element types that are not plain the model also tracks which slots  *)
(* hold a constructed object (alive).                                      *)
(*                                                                         *)
(* Spec is a program with one container and every public call; SpecPair is *)
(* a program with two containers, the copy and move constructors and       *)
(* assignments between them, and at most MaxCalls calls.                   *)
(***************************************************************************)
EXTENDS Integers, Sequences, FiniteSets, TLC

(* size_threshold, instantiated small *)
Threshold == 2
(* largest capacity / size / request the model explores *)
MaxCap == 4
(* largest capacity in the program with two containers *)
PairCap == 3
(* number of calls the program with two containers makes *)
MaxCalls == 5
(* the capacities around the largest integer a float counts exactly to *)
Span == 30

(* element values; 0 is also what T() and fresh memory hold *)
Val == {0, 1}
Inst == {1, 2}
(* the temporary of the copy-and-swap assignment *)
Tmp == Cardinality(Inst) + 1
Obj == Inst \cup {Tmp}
Blocks == {1, 2, 3}

VARIABLES plain, live, buf, count, capacity, using_heap, cached, blk, alive,
          fault, undef, crashed, last, copied, budget, probe

vars == <<plain, live, buf, count, capacity, using_heap, cached, blk, alive,
          fault, undef, crashed, last, copied, budget, probe>>

Max(a, b) == IF a >= b THEN a ELSE b
Min(a, b) == IF a <= b THEN a ELSE b

-----------------------------------------------------------------------------
(* Addresses *)

StackAddr(i) == 100 + i
HeapAddr(b) == 200 + b
IsStack(p) == \E i \in Obj : p = StackAddr(i)
IsHeap(p) == \E b \in Blocks : p = HeapAddr(b)
OwnerOf(p) == p - 100
BlockOf(p) == p - 200

(* The machine state an operation works on: the variables, plus what the   *)
(* operation has run into so far.                                          *)
Cur ==
    [live |-> live, buf |-> buf, count |-> count, capacity |-> capacity,
     using_heap |-> using_heap, cached |-> cached, blk |-> blk,
     alive |-> alive, fault |-> {}, crashed |-> FALSE, ub |-> FALSE,
     exc |-> "none", afail |-> FALSE, stuck |-> FALSE, ret |-> <<0, 0>>]

(* an operation goes on only while nothing has thrown or crashed *)
Running(m) == ~m.crashed /\ m.exc = "none" /\ ~m.stuck

Flag(m, f) == [m EXCEPT !.fault = @ \cup {f}, !.ub = TRUE]
Crash(m, f) == [m EXCEPT !.fault = @ \cup {f}, !.ub = TRUE, !.crashed = TRUE]

ZeroBuf == [k \in 0..(Threshold - 1) |-> 0]

(* the default member initializers *)
Fresh(m, i) ==
    [m EXCEPT !.live[i] = TRUE, !.buf[i] = ZeroBuf, !.count[i] = 0,
              !.capacity[i] = Threshold, !.using_heap[i] = FALSE,
              !.cached[i] = 0]

(* storage_.heap_ptr shares its bytes with the start of stack_buffer *)
heap_ptr(m, i) == m.buf[i][0]
SetHeapPtr(m, i, p) == [m EXCEPT !.buf[i][0] = p]

(* What the address p + k is *)
Loc(m, p, k) ==
    IF IsStack(p)
    THEN IF k < 0 THEN "out"
         ELSE IF k < Threshold THEN "buf"
         ELSE IF k = Threshold THEN "count"
         ELSE IF k = Threshold + 1 THEN "capacity"
         ELSE IF k = Threshold + 2 THEN "using_heap"
         ELSE IF k = Threshold + 3 THEN "cached"
         ELSE "out"
    ELSE IF IsHeap(p)
    THEN IF k < 0 THEN "out"
         ELSE IF m.blk[BlockOf(p)].st # "alloc" THEN "freed"
         ELSE IF k < Len(m.blk[BlockOf(p)].mem) THEN "heap"
         ELSE "out"
    ELSE "out"

Load(m, p, k) ==
    LET w == Loc(m, p, k)
    IN IF w = "buf" THEN m.buf[OwnerOf(p)][k]
       ELSE IF w = "count" THEN m.count[OwnerOf(p)]
       ELSE IF w = "capacity" THEN m.capacity[OwnerOf(p)]
       ELSE IF w = "using_heap" THEN (IF m.using_heap[OwnerOf(p)] THEN 1 ELSE 0)
       ELSE IF w = "cached" THEN m.cached[OwnerOf(p)]
       ELSE IF w = "heap" THEN m.blk[BlockOf(p)].mem[k + 1]
       ELSE 0

(* the faults of reading p[k] *)
Touch(m, p, k) ==
    LET w == Loc(m, p, k)
    IN IF ~Running(m) THEN m
       ELSE IF w = "out" THEN Crash(m, "wild_access")
       ELSE IF w = "freed" THEN Flag(m, "use_after_free")
       ELSE IF w \in {"buf", "heap"} THEN m
       ELSE Flag(m, "overflow")

Store(m, p, k, x) ==
    LET w == Loc(m, p, k)
        i == OwnerOf(p)
    IN IF ~Running(m) THEN m
       ELSE IF w = "buf" THEN [m EXCEPT !.buf[i][k] = x]
       ELSE IF w = "heap" THEN [m EXCEPT !.blk[BlockOf(p)].mem[k + 1] = x]
       ELSE IF w = "count" THEN Flag([m EXCEPT !.count[i] = x], "overflow")
       ELSE IF w = "capacity" THEN Flag([m EXCEPT !.capacity[i] = x], "overflow")
       ELSE IF w = "using_heap" THEN Flag([m EXCEPT !.using_heap[i] = (x # 0)], "overflow")
       ELSE IF w = "cached" THEN Flag([m EXCEPT !.cached[i] = x], "overflow")
       ELSE IF w = "freed" THEN Flag(m, "use_after_free")
       ELSE Crash(m, "wild_access")

-----------------------------------------------------------------------------
(* Object lifetimes (element types that are not plain) *)

(* new (p + k) T(x) *)
PlaceNew(m, p, k, x) ==
    LET m1 == IF <<p, k>> \in m.alive
              THEN [m EXCEPT !.fault = @ \cup {"ctor_over_live"}] ELSE m
        m2 == Store(m1, p, k, x)
    IN IF ~Running(m) THEN m
       ELSE IF plain THEN m2
       ELSE [m2 EXCEPT !.alive = @ \cup {<<p, k>>}]

(* p[k].~T() *)
Destroy(m, p, k) ==
    IF ~Running(m) THEN m
    ELSE IF Loc(m, p, k) \in {"out", "freed"}
    THEN Flag([m EXCEPT !.alive = @ \ {<<p, k>>}], "dtor_wild")
    ELSE IF <<p, k>> \in m.alive THEN [m EXCEPT !.alive = @ \ {<<p, k>>}]
    ELSE Flag(m, "dtor_dead")

(* p[k] = x for an object: an assignment needs a constructed target *)
Assign(m, p, k, x) ==
    LET m1 == IF <<p, k>> \in m.alive THEN m ELSE Flag(m, "assign_dead")
    IN IF ~Running(m) THEN m ELSE Store(m1, p, k, x)

-----------------------------------------------------------------------------
(* Helper functions *)

UpdateDataPointer(m, i) ==
    IF ~Running(m) THEN m
    ELSE [m EXCEPT !.cached[i] = IF ~m.using_heap[i] THEN StackAddr(i)
                                 ELSE heap_ptr(m, i)]

HasFree(m) == \E b \in Blocks : m.blk[b].st # "alloc"
FreeBlock(m) ==
    CHOOSE b \in Blocks :
        /\ m.blk[b].st # "alloc"
        /\ \A c \in Blocks : c < b => m.blk[c].st = "alloc"

(* Malloc(n): the state after the call; MallocPtr is what it returns.      *)
(* ok = FALSE is the allocator failing: malloc returns a null pointer,     *)
(* operator new throws.                                                    *)
MallocPtr(m, ok) == IF ok /\ HasFree(m) THEN HeapAddr(FreeBlock(m)) ELSE 0
Malloc(m, n, ok) ==
    IF ~Running(m) THEN m
    ELSE IF ~ok
    THEN IF plain THEN [m EXCEPT !.afail = TRUE]
         ELSE [m EXCEPT !.afail = TRUE, !.exc = "bad_alloc"]
    ELSE IF ~HasFree(m) THEN [m EXCEPT !.stuck = TRUE]
    ELSE [m EXCEPT !.blk[FreeBlock(m)] =
                       [st |-> "alloc", mem |-> [k \in 1..n |-> 0]]]

Free(m, p) ==
    LET b == BlockOf(p)
        left == {s \in m.alive : s[1] = p}
        m1 == IF left # {} THEN [m EXCEPT !.fault = @ \cup {"leak_obj"}] ELSE m
    IN IF ~Running(m) THEN m
       ELSE IF p = 0 THEN m
       ELSE IF ~IsHeap(p) THEN Crash(m, "invalid_free")
       ELSE IF m.blk[b].st # "alloc" THEN Flag(m, "double_free")
       ELSE [m1 EXCEPT !.blk[b] = [st |-> "free", mem |-> <<>>],
                       !.alive = @ \ left]

Construct(m, p, k, x) == IF plain THEN Store(m, p, k, x) ELSE PlaceNew(m, p, k, x)
MoveConstruct(m, p, k, x) == IF plain THEN Store(m, p, k, x) ELSE PlaceNew(m, p, k, x)

(* the faults of reading n slots from s + sk *)
RECURSIVE TouchN(_, _, _, _)
TouchN(m, s, sk, n) ==
    IF n = 0 \/ ~Running(m) THEN m
    ELSE TouchN(Touch(m, s, sk + n - 1), s, sk, n - 1)

RECURSIVE StoreN(_, _, _, _, _)
StoreN(m, d, dk, xs, t) ==
    IF t > Len(xs) \/ ~Running(m) THEN m
    ELSE StoreN(Store(m, d, dk + t - 1, xs[t]), d, dk, xs, t + 1)

(* memmove / memcpy of n slots: all of the source is read, then written *)
MemMove(m, d, dk, s, sk, n) ==
    LET xs == [t \in 1..n |-> Load(m, s, sk + t - 1)]
    IN IF n <= 0 THEN m
       ELSE StoreN(TouchN(TouchN(m, s, sk, n), d, dk, n), d, dk, xs, 1)

RECURSIVE CopyLoop(_, _, _, _, _)
CopyLoop(m, d, s, i, n) ==
    IF i >= n \/ ~Running(m) THEN m
    ELSE CopyLoop(PlaceNew(Touch(m, s, i), d, i, Load(m, s, i)), d, s, i + 1, n)

CopyElements(m, d, s, n) ==
    IF plain THEN MemMove(m, d, 0, s, 0, n) ELSE CopyLoop(m, d, s, 0, n)

RECURSIVE MoveLoop(_, _, _, _)
MoveLoop(m, d, s, i) ==
    IF i <= 0 \/ ~Running(m) THEN m
    ELSE MoveLoop(Destroy(PlaceNew(Touch(m, s, i - 1), d, i - 1, Load(m, s, i - 1)),
                          s, i - 1),
                  d, s, i - 1)

MoveElements(m, d, s, n) ==
    IF plain THEN MemMove(m, d, 0, s, 0, n)
    ELSE IF d = s THEN m
    ELSE MoveLoop(m, d, s, n)

RECURSIVE DestroyLoop(_, _, _, _)
DestroyLoop(m, p, i, n) ==
    IF i >= n \/ ~Running(m) THEN m
    ELSE DestroyLoop(Destroy(m, p, i), p, i + 1, n)

CallDestructors(m, i) ==
    IF plain THEN m
    ELSE LET m1 == UpdateDataPointer(m, i)
         IN DestroyLoop(m1, m1.cached[i], 0, m1.count[i])

(* Resize, statement by statement; each stage works on the state the     *)
(* stage before it has left.                                               *)

(* a Resize that leaves the mode flag as it was *)
Resize_Set_KeepMode(m, i, new_capacity, new_data, n) ==
    IF ~Running(m) THEN m
    ELSE UpdateDataPointer(
             [(IF new_capacity > Threshold THEN SetHeapPtr(m, i, new_data) ELSE m)
                  EXCEPT !.capacity[i] = new_capacity,
                         !.count[i] = n], i)

(* using_heap_ = will_use_heap; capacity_ = new_capacity; count_ = n *)
Resize_Set(m, i, new_capacity, new_data, n) ==
    IF ~Running(m) THEN m
    ELSE UpdateDataPointer(
             [(IF new_capacity > Threshold THEN SetHeapPtr(m, i, new_data) ELSE m)
                  EXCEPT !.using_heap[i] = new_capacity > Threshold,
                         !.capacity[i] = new_capacity,
                         !.count[i] = n], i)

(* a Resize that keeps the old block *)
Resize_Free_Keep(m, i, old_data) == m

(* if (using_heap_) { Free(old_data); } *)
Resize_Free(m, i, old_data) ==
    IF Running(m) /\ m.using_heap[i] THEN Free(m, old_data) ELSE m

(* "we got them all copied, now commit to the swap" *)
Resize_Commit(m, i, new_capacity, new_data, old_data, n) ==
    Resize_Set(Resize_Free(CallDestructors(m, i), i, old_data),
               i, new_capacity, new_data, n)

(* the "copy" block: new storage, then MoveElements *)
Resize_Copy(m, i, new_capacity, new_data, ok) ==
    Resize_Commit(
        MoveElements(IF new_capacity > Threshold THEN Malloc(m, new_capacity, ok) ELSE m,
                     new_data, m.cached[i], Min(m.count[i], new_capacity)),
        i, new_capacity, new_data, m.cached[i], Min(m.count[i], new_capacity))

Resize_New(m, i, new_capacity, ok) ==
    Resize_Copy(m, i, new_capacity,
                IF new_capacity > Threshold THEN MallocPtr(m, ok) ELSE StackAddr(i), ok)

Resize(m, i, new_cap, ok) ==
    IF ~Running(m) THEN m
    ELSE IF /\ Max(new_cap, Threshold) = m.capacity[i]
            /\ (Max(new_cap, Threshold) > Threshold) = m.using_heap[i]
    THEN m
    ELSE Resize_New(UpdateDataPointer(m, i), i, Max(new_cap, Threshold), ok)

(* capacity_ * growth_factor: capacity_ is converted to float, the nearest *)
(* value with a 24 bit significand, ties to the even one; the product     *)
(* with 2.0f is exact and is converted back to size_t                      *)
FloatMantissa == 16777216
GrowthFactor == 2
RECURSIVE Ulp(_)
Ulp(c) == IF c < FloatMantissa THEN 1 ELSE 2 * Ulp(c \div 2)
Nearest(c, u) ==
    IF 2 * (c % u) < u THEN c - (c % u)
    ELSE IF 2 * (c % u) > u THEN c - (c % u) + u
    ELSE IF (c \div u) % 2 = 0 THEN c - (c % u)
    ELSE c - (c % u) + u
ToFloat(c) == Nearest(c, Ulp(c))

(* size_t new_cap = (capacity_ == 0) ? size_threshold : capacity_ * growth_factor *)
NewCap(c) == IF c = 0 THEN Threshold ELSE ToFloat(c) * GrowthFactor

CheckSize(m, i, ok) ==
    IF ~Running(m) THEN m
    ELSE IF m.count[i] = m.capacity[i]
    THEN Resize(m, i, NewCap(m.capacity[i]), ok)
    ELSE m

(* an At that does not check the index *)
At_Unchecked(m, i, k) == [m EXCEPT !.ret = <<m.cached[i], k>>]

(* if (i >= count_) throw std::out_of_range(...); return data_ptr()[i]; *)
At(m, i, k) ==
    IF k >= m.count[i] THEN [m EXCEPT !.exc = "out_of_range"]
    ELSE [m EXCEPT !.ret = <<m.cached[i], k>>]

Bump(m, i, d) == IF Running(m) THEN [m EXCEPT !.count[i] = @ + d] ELSE m
SetCount(m, i, n) == IF Running(m) THEN [m EXCEPT !.count[i] = n] ELSE m

(* a Reserve that resizes whatever it is asked for *)
Reserve_Always(m, i, new_cap, ok) == Resize(m, i, new_cap, ok)

Reserve(m, i, new_cap, ok) ==
    IF new_cap > m.capacity[i] THEN Resize(m, i, new_cap, ok) ELSE m

ShrinkToFit(m, i, ok) ==
    IF m.count[i] < m.capacity[i] THEN Resize(m, i, m.count[i], ok) ELSE m

(* Construct(data_ptr() + count_, value); ++count_ *)
AtEnd_Construct(m, i, v) == Bump(Construct(m, m.cached[i], m.count[i], v), i, 1)
AtEnd_MoveConstruct(m, i, v) == Bump(MoveConstruct(m, m.cached[i], m.count[i], v), i, 1)
AtEnd_New(m, i, v) == Bump(PlaceNew(m, m.cached[i], m.count[i], v), i, 1)

PushBack_Copy(m, i, v, ok) == AtEnd_Construct(CheckSize(m, i, ok), i, v)
PushBack_Move(m, i, v, ok) == AtEnd_MoveConstruct(CheckSize(m, i, ok), i, v)
EmplaceBack(m, i, v, ok) == AtEnd_New(CheckSize(m, i, ok), i, v)

PopBack(m, i) ==
    Bump(IF plain THEN m ELSE Destroy(m, m.cached[i], m.count[i] - 1), i, -1)

Clear(m, i) == SetCount(CallDestructors(m, i), i, 0)

-----------------------------------------------------------------------------
(* Constructors, assignment, destructor *)

(* the member initializers, then count_ = c; capacity_ = cap; using_heap_ *)
Begin(m, i, c, cap, heap) ==
    [Fresh(m, i) EXCEPT !.count[i] = c, !.capacity[i] = cap, !.using_heap[i] = heap]

ContainerConstructor(m, i) ==
    UpdateDataPointer(Begin(m, i, 0, Threshold, FALSE), i)

(* for (i = 0; i < size; ++i) new (data_ptr() + i) T(value) *)
RECURSIVE FillLoop(_, _, _, _, _)
FillLoop(m, i, k, size, x) ==
    IF k >= size \/ ~Running(m) THEN m
    ELSE FillLoop(PlaceNew(m, m.cached[i], k, x), i, k + 1, size, x)

SizedCapacity(size) == IF size <= Threshold THEN Threshold ELSE size

ContainerConstructor_Size(m, i, size) ==
    SetCount(IF plain
             THEN UpdateDataPointer(Begin(m, i, 0, SizedCapacity(size), FALSE), i)
             ELSE FillLoop(UpdateDataPointer(Begin(m, i, 0, SizedCapacity(size), FALSE), i),
                           i, 0, size, 0),
             i, size)

ContainerConstructor_SizeValue(m, i, size, value) ==
    SetCount(FillLoop(UpdateDataPointer(Begin(m, i, 0, SizedCapacity(size), FALSE), i),
                      i, 0, size, value),
             i, size)

(* if (using_heap_) { storage_.heap_ptr = Malloc(capacity_); } *)
HeapIfNeeded(m, i, ok) ==
    IF ~Running(m) \/ ~m.using_heap[i] THEN m
    ELSE IF Running(Malloc(m, m.capacity[i], ok))
    THEN SetHeapPtr(Malloc(m, m.capacity[i], ok), i, MallocPtr(m, ok))
    ELSE Malloc(m, m.capacity[i], ok)

Copy_Elements(m, i, rhs) ==
    UpdateDataPointer(CopyElements(m, m.cached[i], m.cached[rhs], m.count[i]), i)

ContainerConstructor_Copy(m, i, rhs, ok) ==
    Copy_Elements(
        UpdateDataPointer(
            HeapIfNeeded(Begin(m, i, m.count[rhs], m.capacity[rhs],
                               m.capacity[rhs] > Threshold), i, ok), i),
        i, rhs)

(* count_ = rhs.count_; rhs.count_ = 0; rhs.capacity_ = size_threshold;   *)
(* rhs.using_heap_ = false; UpdateDataPointer()                            *)
Move_Drain_KeepCount(m, i, rhs) ==
    IF ~Running(m) THEN m
    ELSE UpdateDataPointer([m EXCEPT !.count[i] = m.count[rhs],
                                     !.capacity[rhs] = Threshold,
                                     !.using_heap[rhs] = FALSE], i)

Move_Drain(m, i, rhs) ==
    IF ~Running(m) THEN m
    ELSE UpdateDataPointer([m EXCEPT !.count[i] = m.count[rhs],
                                     !.count[rhs] = 0,
                                     !.capacity[rhs] = Threshold,
                                     !.using_heap[rhs] = FALSE], i)

Move_Elements(m, i, rhs) ==
    Move_Drain(IF ~m.using_heap[i]
               THEN MoveElements(m, m.cached[i], m.cached[rhs], m.count[rhs])
               ELSE m, i, rhs)

Move_Take(m, i, rhs) ==
    Move_Elements(UpdateDataPointer(IF m.using_heap[i]
                                    THEN SetHeapPtr(m, i, heap_ptr(m, rhs))
                                    ELSE m, i), i, rhs)

ContainerConstructor_Move(m, i, rhs) ==
    Move_Take(UpdateDataPointer(Begin(m, i, 0, m.capacity[rhs], m.using_heap[rhs]), i),
              i, rhs)

(* for (const T& val : init) { Construct(data_ptr() + i, val); ++i; } *)
RECURSIVE ListLoop(_, _, _, _)
ListLoop(m, i, k, init) ==
    IF k >= Len(init) \/ ~Running(m) THEN m
    ELSE ListLoop(Construct(m, m.cached[i], k, init[k + 1]), i, k + 1, init)

ContainerConstructor_List(m, i, init, ok) ==
    UpdateDataPointer(
        ListLoop(HeapIfNeeded(UpdateDataPointer(
                                  Begin(m, i, Len(init), Len(init), Len(init) > Threshold),
                                  i), i, ok),
                 i, 0, init), i)

(* if (using_heap_) { Free(storage_.heap_ptr); } *)
FreeIfHeap(m, i) ==
    IF Running(m) /\ m.using_heap[i] THEN Free(m, heap_ptr(m, i)) ELSE m

ContainerDestructor(m, i) ==
    UpdateDataPointer(FreeIfHeap(CallDestructors(m, i), i), i)

(* the objects in the inline buffer travel with a byte copy of storage_ *)
InBuf(m, i) == {s \in m.alive : s[1] = StackAddr(i) /\ s[2] < Threshold}
Rebase(S, i) == {<<StackAddr(i), s[2]>> : s \in S}

Swap(m, i, other) ==
    IF ~Running(m) THEN m
    ELSE UpdateDataPointer(UpdateDataPointer(
             [m EXCEPT !.buf[i] = m.buf[other], !.buf[other] = m.buf[i],
                       !.count[i] = m.count[other], !.count[other] = m.count[i],
                       !.capacity[i] = m.capacity[other],
                       !.capacity[other] = m.capacity[i],
                       !.using_heap[i] = m.using_heap[other],
                       !.using_heap[other] = m.using_heap[i],
                       !.alive = ((@ \ InBuf(m, i)) \ InBuf(m, other))
                                 \cup Rebase(InBuf(m, i), other)
                                 \cup Rebase(InBuf(m, other), i)], i), other)

(* a constructor that throws leaves no object *)
Built(m, i) == IF m.exc # "none" THEN [m EXCEPT !.live[i] = FALSE] ELSE m

(* the object's storage ends: objects left constructed in it are never     *)
(* destroyed                                                               *)
EndOf(m, i) ==
    IF m.crashed THEN m
    ELSE [m EXCEPT !.fault = IF \E s \in m.alive : s[1] = StackAddr(i)
                             THEN @ \cup {"leak_obj"} ELSE @,
                   !.live[i] = FALSE, !.buf[i] = ZeroBuf, !.count[i] = 0,
                   !.capacity[i] = Threshold, !.using_heap[i] = FALSE,
                   !.cached[i] = 0,
                   !.alive = {s \in @ : s[1] # StackAddr(i)}]

(* SboArray temp(rhs); Swap(temp); and temp's destructor at the end of the *)
(* block                                                                   *)
Copy_Swap(m, i) ==
    IF Running(m) THEN EndOf(ContainerDestructor(Swap(m, i, Tmp), Tmp), Tmp)
    ELSE EndOf(m, Tmp)

ContainerAssignment_Copy(m, i, rhs, ok) ==
    UpdateDataPointer(IF i # rhs
                      THEN Copy_Swap(ContainerConstructor_Copy(m, Tmp, rhs, ok), i)
                      ELSE m, i)

(* storage_ = rhs.storage_; ... rhs.using_heap_ = false *)
Move_Storage(m, i, rhs) ==
    IF ~Running(m) THEN m
    ELSE [m EXCEPT !.buf[i] = m.buf[rhs],
                   !.buf[rhs] = [m.buf[rhs] EXCEPT ![0] = 0],
                   !.alive = (@ \ InBuf(m, rhs)) \cup Rebase(InBuf(m, rhs), i),
                   !.count[i] = m.count[rhs],
                   !.capacity[i] = m.capacity[rhs],
                   !.using_heap[i] = m.using_heap[rhs],
                   !.count[rhs] = 0,
                   !.capacity[rhs] = Threshold,
                   !.using_heap[rhs] = FALSE]

ContainerAssignment_Move(m, i, rhs) ==
    UpdateDataPointer(IF i # rhs
                      THEN Move_Storage(FreeIfHeap(CallDestructors(m, i), i), i, rhs)
                      ELSE m, i)

-----------------------------------------------------------------------------
(* Iterators: a position is begin() + k, that is <<cached_data_ptr_, k>> *)

Ret(m, p, k) == IF Running(m) THEN [m EXCEPT !.ret = <<p, k>>] ELSE m

(* std::move(first, last, dest) and std::move_backward on objects: move     *)
(* assignment, element by element                                          *)
RECURSIVE AssignFwd(_, _, _, _, _)
AssignFwd(m, p, from, to, n) ==
    IF n <= 0 \/ ~Running(m) THEN m
    ELSE AssignFwd(Assign(Touch(m, p, from), p, to, Load(m, p, from)),
                   p, from + 1, to + 1, n - 1)

RECURSIVE AssignBwd(_, _, _, _, _)
AssignBwd(m, p, from, to, n) ==
    IF n <= 0 \/ ~Running(m) THEN m
    ELSE AssignBwd(Assign(Touch(m, p, from + n - 1), p, to + n - 1,
                          Load(m, p, from + n - 1)),
                   p, from, to, n - 1)

(* the shift of n slots from p + from to p + to *)
ShiftLeft(m, p, from, to, n) ==
    IF plain THEN MemMove(m, p, to, p, from, n) ELSE AssignFwd(m, p, from, to, n)
ShiftRight(m, p, from, to, n) ==
    IF plain THEN MemMove(m, p, to, p, from, n) ELSE AssignBwd(m, p, from, to, n)

Erase_Last(m, p, k) == IF plain THEN m ELSE Destroy(m, p, k)

(* an Erase that does not look at the position it is given *)
Erase_Unchecked(m, i, k) ==
    Ret(Bump(Erase_Last(ShiftLeft(m, m.cached[i], k + 1, k, m.count[i] - k - 1),
                        m.cached[i], m.count[i] - 1),
             i, -1),
        m.cached[i], k)

Erase(m, i, k) ==
    IF k < 0 \/ k >= m.count[i] THEN Ret(m, m.cached[i], m.count[i])
    ELSE Ret(Bump(Erase_Last(ShiftLeft(m, m.cached[i], k + 1, k, m.count[i] - k - 1),
                             m.cached[i], m.count[i] - 1),
                  i, -1),
             m.cached[i], k)

Erase_Tail(m, p, from, to) == IF plain THEN m ELSE DestroyLoop(m, p, from, to)

EraseRange(m, i, first, lst) ==
    IF first < 0 \/ lst > m.count[i] \/ first > lst THEN Ret(m, m.cached[i], m.count[i])
    ELSE IF first = lst THEN Ret(m, m.cached[i], first)
    ELSE Ret(Bump(Erase_Tail(ShiftLeft(m, m.cached[i], lst, first, m.count[i] - lst),
                             m.cached[i], first + (m.count[i] - lst), m.count[i]),
                  i, first - lst),
             m.cached[i], first)

(* pos = begin() + index; the shift; Construct(pos, arg); ++count_ *)
Insert_At(m, i, index, v) ==
    Ret(Bump(Construct(ShiftRight(m, m.cached[i], index, index + 1, m.count[i] - index),
                       m.cached[i], index, v),
             i, 1),
        m.cached[i], index)

Insert(m, i, index, v, ok) ==
    Insert_At(IF m.count[i] = m.capacity[i] THEN CheckSize(m, i, ok) ELSE m, i, index, v)

RECURSIVE ConstructSeq(_, _, _, _, _)
ConstructSeq(m, p, k, xs, t) ==
    IF t > Len(xs) \/ ~Running(m) THEN m
    ELSE ConstructSeq(Construct(m, p, k + t - 1, xs[t]), p, k, xs, t + 1)

InsertRange_At(m, i, index, xs) ==
    Ret(Bump(ConstructSeq(ShiftRight(m, m.cached[i], index, index + Len(xs),
                                     m.count[i] - index),
                          m.cached[i], index, xs, 1),
             i, Len(xs)),
        m.cached[i], index)

InsertRange(m, i, index, xs, ok) ==
    IF Len(xs) <= 0 THEN Ret(m, m.cached[i], index)
    ELSE InsertRange_At(IF m.count[i] + Len(xs) > m.capacity[i]
                        THEN Reserve(m, i, m.count[i] + Len(xs), ok) ELSE m,
                        i, index, xs)

(* a[k] = v through operator[] *)
WriteAt(m, i, k, v) ==
    IF plain THEN Store(Touch(m, m.cached[i], k), m.cached[i], k, v)
    ELSE Assign(Touch(m, m.cached[i], k), m.cached[i], k, v)

-----------------------------------------------------------------------------
(* The public operations as steps of a program that uses the container *)

NoBlock == [st |-> "free", mem |-> <<>>]

(* what a caller reads through operator[] / begin()..end(); memory that   *)
(* is not there, or was freed, or holds no constructed object, has no      *)
(* determinate value                                                       *)
Indeterminate == 0 - 1
Read(m, p, k) ==
    IF Loc(m, p, k) \in {"freed", "out"} THEN Indeterminate
    ELSE IF ~plain /\ <<p, k>> \notin m.alive THEN Indeterminate
    ELSE Load(m, p, k)
ElemsOf(m, i) == [k \in 1..m.count[i] |-> Read(m, m.cached[i], k - 1)]

(* History of copies: the last copy b = a, and the elements a had        *)
(* then, kept for as long as the program has only mutated b since.        *)
NoCopy == [to |-> 0, from |-> 0, elems |-> <<>>]
CopyOps == {"ctor_copy", "assign_copy"}
MutateOps == {"push_back", "push_back_move", "emplace_back", "pop_back", "clear",
              "reserve", "shrink_to_fit", "insert", "insert_range", "erase",
              "erase_range", "write_at"}
Copied(m, op, i, j) ==
    IF op \in CopyOps /\ i # j /\ m.exc = "none"
    THEN [to |-> i, from |-> j, elems |-> ElemsOf(m, j)]
    ELSE IF op \in MutateOps /\ copied.to = i THEN copied
    ELSE NoCopy

(* the calls the program may still make; NoLimit when it is not bounded *)
NoLimit == 0 - 1
Spend == IF budget > 0 THEN budget - 1 ELSE budget

(* a call of the growth computation on its own: the capacity it is given  *)
(* and the capacity it asks Resize for                                     *)
NoProbe == [capacity |-> 0, new_cap |-> 0, called |-> FALSE]

Init ==
    /\ plain \in BOOLEAN
    /\ live = [i \in Obj |-> FALSE]
    /\ buf = [i \in Obj |-> ZeroBuf]
    /\ count = [i \in Obj |-> 0]
    /\ capacity = [i \in Obj |-> Threshold]
    /\ using_heap = [i \in Obj |-> FALSE]
    /\ cached = [i \in Obj |-> 0]
    /\ blk = [b \in Blocks |-> NoBlock]
    /\ alive = {}
    /\ fault = {}
    /\ undef = FALSE
    /\ crashed = FALSE
    /\ last = [op |-> "init", inst |-> 0, src |-> 0, res |-> "none",
               afail |-> FALSE, ret |-> <<0, 0>>]
    /\ copied = NoCopy
    /\ budget = NoLimit
    /\ probe = NoProbe

(* the operation returns, or leaves by an exception *)
Returns(m, op, i, j) ==
    /\ ~m.crashed
    /\ live' = m.live
    /\ buf' = m.buf
    /\ count' = m.count
    /\ capacity' = m.capacity
    /\ using_heap' = m.using_heap
    /\ cached' = m.cached
    /\ blk' = m.blk
    /\ alive' = m.alive
    /\ fault' = m.fault
    /\ undef' = m.ub
    /\ crashed' = FALSE
    /\ last' = [op |-> op, inst |-> i, src |-> j, res |-> m.exc,
                afail |-> m.afail, ret |-> m.ret]
    /\ copied' = Copied(m, op, i, j)
    /\ budget' = Spend
    /\ UNCHANGED <<plain, probe>>

(* the process ends inside the operation *)
Dies(m, op, i, j) ==
    /\ m.crashed \/ m.ub
    /\ crashed' = TRUE
    /\ undef' = m.ub
    /\ fault' = m.fault
    /\ last' = [op |-> op, inst |-> i, src |-> j, res |-> "crash",
                afail |-> m.afail, ret |-> <<0, 0>>]
    /\ copied' = NoCopy
    /\ budget' = Spend
    /\ UNCHANGED <<plain, probe, live, buf, count, capacity, using_heap, cached,
                   blk, alive>>

(* An operation that has run into undefined behaviour either returns with  *)
(* what the memory layout makes of it, or ends the process.  The program   *)
(* is followed up to its first operation with undefined behaviour.         *)
Go == ~crashed /\ ~undef /\ budget # 0

Commit(m, op, i, j) ==
    /\ ~m.stuck
    /\ \/ Returns(m, op, i, j)
       \/ Dies(m, op, i, j)

(* an exception that leaves a noexcept function ends the process *)
NoExcept(m) == IF m.exc # "none" THEN [m EXCEPT !.crashed = TRUE] ELSE m

Fits(n) == n <= MaxCap
Grown(i) == IF count[i] # capacity[i] THEN 0 ELSE NewCap(capacity[i])

(* the ranges handed to insert(pos, first, last) *)
Ranges == {<<>>, <<1>>, <<1, 0>>}

Lists(n) == UNION {[1..k -> Val] : k \in 0..n}

Ctor_Default(i) ==
    /\ Go /\ ~live[i]
    /\ Commit(ContainerConstructor(Cur, i), "ctor_default", i, 0)

Ctor_Size(i, n) ==
    /\ Go /\ ~live[i]
    /\ Commit(ContainerConstructor_Size(Cur, i, n), "ctor_size", i, 0)

Ctor_SizeValue(i, n, v) ==
    /\ Go /\ ~live[i]
    /\ Commit(ContainerConstructor_SizeValue(Cur, i, n, v), "ctor_size_value", i, 0)

Ctor_List(i, init, ok) ==
    /\ Go /\ ~live[i]
    /\ Commit(Built(ContainerConstructor_List(Cur, i, init, ok), i), "ctor_list", i, 0)

Ctor_Copy(i, j, ok) ==
    /\ Go /\ ~live[i] /\ live[j] /\ i # j
    /\ Fits(capacity[j])
    /\ Commit(Built(ContainerConstructor_Copy(Cur, i, j, ok), i), "ctor_copy", i, j)

Ctor_Move(i, j) ==
    /\ Go /\ ~live[i] /\ live[j] /\ i # j
    /\ Commit(ContainerConstructor_Move(Cur, i, j), "ctor_move", i, j)

Assign_Copy(i, j, ok) ==
    /\ Go /\ live[i] /\ live[j]
    /\ Fits(capacity[j])
    /\ Commit(ContainerAssignment_Copy(Cur, i, j, ok), "assign_copy", i, j)

Assign_Move(i, j) ==
    /\ Go /\ live[i] /\ live[j]
    /\ Commit(NoExcept(ContainerAssignment_Move(Cur, i, j)), "assign_move", i, j)

Dtor(i) ==
    /\ Go /\ live[i]
    /\ Commit(EndOf(ContainerDestructor(Cur, i), i), "dtor", i, 0)

push_back(i, v, ok) ==
    /\ Go /\ live[i] /\ Fits(Grown(i))
    /\ Commit(PushBack_Copy(Cur, i, v, ok), "push_back", i, 0)

push_back_move(i, v, ok) ==
    /\ Go /\ live[i] /\ Fits(Grown(i))
    /\ Commit(NoExcept(PushBack_Move(Cur, i, v, ok)), "push_back_move", i, 0)

emplace_back(i, v, ok) ==
    /\ Go /\ live[i] /\ Fits(Grown(i))
    /\ Commit(EmplaceBack(Cur, i, v, ok), "emplace_back", i, 0)

pop_back(i) ==
    /\ Go /\ live[i] /\ count[i] > 0
    /\ Commit(NoExcept(PopBack(Cur, i)), "pop_back", i, 0)

clear(i) ==
    /\ Go /\ live[i]
    /\ Commit(NoExcept(Clear(Cur, i)), "clear", i, 0)

reserve(i, n, ok) ==
    /\ Go /\ live[i]
    /\ Commit(Reserve(Cur, i, n, ok), "reserve", i, 0)

shrink_to_fit(i, ok) ==
    /\ Go /\ live[i]
    /\ Commit(ShrinkToFit(Cur, i, ok), "shrink_to_fit", i, 0)

insert(i, k, v, ok) ==
    /\ Go /\ live[i] /\ Fits(Grown(i))
    /\ k <= count[i]
    /\ Commit(Insert(Cur, i, k, v, ok), "insert", i, 0)

insert_range(i, k, xs, ok) ==
    /\ Go /\ live[i] /\ Fits(count[i] + Len(xs))
    /\ k <= count[i]
    /\ Commit(InsertRange(Cur, i, k, xs, ok), "insert_range", i, 0)

erase(i, k) ==
    /\ Go /\ live[i] /\ k <= count[i]
    /\ Commit(Erase(Cur, i, k), "erase", i, 0)

erase_range(i, first, lst) ==
    /\ Go /\ live[i] /\ first <= count[i] /\ lst <= count[i] + 1
    /\ Commit(EraseRange(Cur, i, first, lst), "erase_range", i, 0)

write_at(i, k, v) ==
    /\ Go /\ live[i] /\ k < count[i]
    /\ Commit(WriteAt(Cur, i, k, v), "write_at", i, 0)

at(i, k) ==
    /\ Go /\ live[i]
    /\ Commit(At(Cur, i, k), "at", i, 0)

(* the operations on one container *)
Mutate(i) ==
    \/ \E v \in Val, ok \in BOOLEAN : push_back(i, v, ok)
    \/ \E v \in Val, ok \in BOOLEAN : push_back_move(i, v, ok)
    \/ \E v \in Val, ok \in BOOLEAN : emplace_back(i, v, ok)
    \/ pop_back(i)
    \/ clear(i)
    \/ \E n \in 0..MaxCap, ok \in BOOLEAN : reserve(i, n, ok)
    \/ \E ok \in BOOLEAN : shrink_to_fit(i, ok)
    \/ \E k \in 0..MaxCap, v \in Val, ok \in BOOLEAN : insert(i, k, v, ok)
    \/ \E k \in 0..MaxCap, xs \in Ranges, ok \in BOOLEAN : insert_range(i, k, xs, ok)
    \/ \E k \in (0 - 1)..MaxCap : erase(i, k)
    \/ \E f \in (0 - 1)..MaxCap, l \in 0..(MaxCap + 1) : erase_range(i, f, l)
    \/ \E k \in 0..MaxCap, v \in Val : write_at(i, k, v)

Build(i) ==
    \/ Ctor_Default(i)
    \/ \E n \in 0..MaxCap : Ctor_Size(i, n)
    \/ \E n \in 0..MaxCap, v \in Val : Ctor_SizeValue(i, n, v)
    \/ \E init \in Lists(Threshold + 1), ok \in BOOLEAN : Ctor_List(i, init, ok)

(* a program with one container *)
Next ==
    \/ Build(1)
    \/ Mutate(1)
    \/ Dtor(1)
    \/ \E ok \in BOOLEAN : Assign_Copy(1, 1, ok)
    \/ Assign_Move(1, 1)

Spec == Init /\ [][Next]_vars

(* a program with two containers that hold at most PairCap elements each *)
PairBuild(i) ==
    \/ Ctor_Default(i)
    \/ \E n \in 0..PairCap : Ctor_Size(i, n)
    \/ \E init \in Lists(PairCap) : Ctor_List(i, init, TRUE)

PairMutate(i) ==
    \/ \E v \in Val : Grown(i) <= PairCap /\ push_back(i, v, TRUE)
    \/ pop_back(i)
    \/ clear(i)
    \/ \E n \in 0..PairCap, ok \in BOOLEAN : reserve(i, n, ok)
    \/ shrink_to_fit(i, TRUE)
    \/ \E v \in Val : Grown(i) <= PairCap /\ insert(i, 0, v, TRUE)
    \/ erase(i, 0)
    \/ \E v \in Val : write_at(i, 0, v)

PairNext ==
    \/ \E i \in Inst : PairBuild(i)
    \/ \E i \in Inst : PairMutate(i)
    \/ \E i \in Inst : Dtor(i)
    \/ \E i, j \in Inst, ok \in BOOLEAN : Ctor_Copy(i, j, ok)
    \/ \E i, j \in Inst : Ctor_Move(i, j)
    \/ \E i, j \in Inst, ok \in BOOLEAN : Assign_Copy(i, j, ok)
    \/ \E i, j \in Inst : Assign_Move(i, j)

InitPair ==
    /\ plain \in BOOLEAN
    /\ live = [i \in Obj |-> FALSE]
    /\ buf = [i \in Obj |-> ZeroBuf]
    /\ count = [i \in Obj |-> 0]
    /\ capacity = [i \in Obj |-> Threshold]
    /\ using_heap = [i \in Obj |-> FALSE]
    /\ cached = [i \in Obj |-> 0]
    /\ blk = [b \in Blocks |-> NoBlock]
    /\ alive = {}
    /\ fault = {}
    /\ undef = FALSE
    /\ crashed = FALSE
    /\ last = [op |-> "init", inst |-> 0, src |-> 0, res |-> "none",
               afail |-> FALSE, ret |-> <<0, 0>>]
    /\ copied = NoCopy
    /\ budget = MaxCalls
    /\ probe = NoProbe

SpecPair == InitPair /\ [][PairNext]_vars

(* the growth computation of CheckSize on full containers of small and of  *)
(* large capacity                                                          *)
Capacities ==
    (0..MaxCap) \cup ((FloatMantissa - Span)..(FloatMantissa + Span))

CheckSize_NewCap ==
    /\ ~probe.called
    /\ probe' = [probe EXCEPT !.new_cap = NewCap(probe.capacity), !.called = TRUE]
    /\ UNCHANGED <<plain, live, buf, count, capacity, using_heap, cached, blk,
                   alive, fault, undef, crashed, last, copied, budget>>

InitGrowth ==
    /\ plain \in BOOLEAN
    /\ live = [i \in Obj |-> FALSE]
    /\ buf = [i \in Obj |-> ZeroBuf]
    /\ count = [i \in Obj |-> 0]
    /\ capacity = [i \in Obj |-> Threshold]
    /\ using_heap = [i \in Obj |-> FALSE]
    /\ cached = [i \in Obj |-> 0]
    /\ blk = [b \in Blocks |-> NoBlock]
    /\ alive = {}
    /\ fault = {}
    /\ undef = FALSE
    /\ crashed = FALSE
    /\ last = [op |-> "init", inst |-> 0, src |-> 0, res |-> "none",
               afail |-> FALSE, ret |-> <<0, 0>>]
    /\ copied = NoCopy
    /\ budget = NoLimit
    /\ probe \in {[capacity |-> c, new_cap |-> 0, called |-> FALSE] : c \in Capacities}

SpecGrowth == InitGrowth /\ [][CheckSize_NewCap]_vars

(* a program that builds a container, pushes and pops, and reads it with at *)
AccessNext ==
    \/ Build(1)
    \/ \E v \in Val : push_back(1, v, TRUE)
    \/ pop_back(1)
    \/ \E k \in 0..(MaxCap + 1) : at(1, k)
    \/ Dtor(1)

SpecAccess == Init /\ [][AccessNext]_vars

(* a program that builds a container, fills it, changes its capacity and   *)
(* erases from it                                                          *)
EraseNext ==
    \/ Build(1)
    \/ \E v \in Val : push_back(1, v, TRUE)
    \/ pop_back(1)
    \/ \E n \in 0..MaxCap : reserve(1, n, TRUE)
    \/ shrink_to_fit(1, TRUE)
    \/ \E k \in (0 - 1)..MaxCap : erase(1, k)
    \/ \E f \in (0 - 1)..MaxCap, l \in 0..(MaxCap + 1) : erase_range(1, f, l)
    \/ Dtor(1)

SpecErase == Init /\ [][EraseNext]_vars

(* a program that default-constructs a container and uses it as a stack *)
StackNext ==
    \/ Ctor_Default(1)
    \/ \E v \in Val, ok \in BOOLEAN : push_back(1, v, ok)
    \/ \E v \in Val, ok \in BOOLEAN : push_back_move(1, v, ok)
    \/ \E v \in Val, ok \in BOOLEAN : emplace_back(1, v, ok)
    \/ pop_back(1)
    \/ Dtor(1)

SpecStack == Init /\ [][StackNext]_vars

-----------------------------------------------------------------------------
(* The public queries *)

size(i) == count[i]
using_stack_buffer(i) == ~using_heap[i]
data(i) == cached[i]
Elems(i) == ElemsOf(Cur, i)
back(i) == Read(Cur, cached[i], count[i] - 1)

(* a container the program can call *)
Usable(i) == live[i] /\ ~crashed

(* the storage the mode designates *)
ActiveStorage(i) == IF using_heap[i] THEN heap_ptr(Cur, i) ELSE StackAddr(i)

MoveOps == {"ctor_move", "assign_move"}
ReallocOps == {"push_back", "push_back_move", "emplace_back", "insert", "reserve",
               "shrink_to_fit"}

-----------------------------------------------------------------------------
(* Properties *)

(* C1: mode invariant - after every public call, using_stack_buffer() is   *)
(* true exactly when capacity() <= threshold.                              *)
C1_ModeInvariant ==
    \A i \in Inst : Usable(i) => (using_stack_buffer(i) <=> capacity[i] <= Threshold)

(* C2: capacity floor - capacity() >= threshold after every public call.   *)
C2_CapacityFloor ==
    \A i \in Inst : Usable(i) => capacity[i] >= Threshold

(* C3: count bound - size() <= capacity() after every public call.         *)
C3_CountBound ==
    \A i \in Inst : Usable(i) => size(i) <= capacity[i]

(* C4: no shared heap block after a move - no two live instances reference *)
(* the same heap block.                                                    *)
C4_NoSharedHeapBlock ==
    \A i, j \in Inst :
        (i # j /\ Usable(i) /\ Usable(j) /\ IsHeap(data(i))) => data(i) # data(j)

(* C5: destructor balance for element types that are not plain - no slot   *)
(* is destroyed twice or without having been constructed, no constructed   *)
(* slot loses its storage undestroyed, and every position below count      *)
(* still holds its object.                                                 *)
C5_DestructorBalance ==
    ~plain =>
        /\ fault \cap {"dtor_dead", "dtor_wild", "leak_obj"} = {}
        /\ \A i \in Inst : Usable(i) =>
               \A k \in 0..(count[i] - 1) : <<data(i), k>> \in alive

(* C6: allocation-failure atomicity - a reallocating call during which the *)
(* allocator fails reports the failure and leaves size, capacity, mode,    *)
(* elements and the heap blocks as they were.                              *)
C6_AllocFailureAtomic ==
    [][\A i \in Inst :
           (last'.afail /\ last'.op \in ReallocOps /\ last'.inst = i) =>
               /\ last'.res = "bad_alloc"
               /\ count'[i] = count[i]
               /\ capacity'[i] = capacity[i]
               /\ using_heap'[i] = using_heap[i]
               /\ Elems(i)' = Elems(i)
               /\ blk' = blk]_vars

(* C7: live-range invariant for element types that are not plain - the     *)
(* constructed slots are exactly the positions below count of each live    *)
(* instance's active storage, and no call assigns into a slot that holds   *)
(* no object or constructs over a slot that holds one.                     *)
C7_LiveRange ==
    (~plain /\ ~crashed) =>
        /\ alive = UNION {{<<ActiveStorage(i), k>> : k \in 0..(count[i] - 1)} :
                              i \in {j \in Inst : live[j]}}
        /\ fault \cap {"assign_dead", "ctor_over_live"} = {}

(* C8: copy independence - after b = a (copy construction or copy          *)
(* assignment) b has a's size and elements, mutations of b leave a's size  *)
(* and elements as they were, and the two never share a storage region.    *)
C8_CopyIndependence ==
    (copied.to # 0 /\ ~crashed) =>
        /\ Elems(copied.from) = copied.elems
        /\ last.op \in CopyOps => Elems(copied.to) = copied.elems
        /\ (IsHeap(data(copied.to)) \/ IsStack(data(copied.to))) =>
               data(copied.to) # data(copied.from)

(* C9: move drains source - after move construction from a, or move        *)
(* assignment b = std::move(a) with b distinct from a, a.size() == 0 and   *)
(* a.using_stack_buffer() == true.                                         *)
C9_MoveDrainsSource ==
    (last.op \in MoveOps /\ last.inst # last.src /\ ~crashed) =>
        size(last.src) = 0 /\ using_stack_buffer(last.src)

(* a move out of a heap-mode container that held elements *)
C9_Witness ==
    /\ last.op \in MoveOps /\ last.inst # last.src /\ ~crashed
    /\ ~using_stack_buffer(last.inst) /\ size(last.inst) > 0

(* C10: heap block accounting - a block is asked for only for a capacity   *)
(* above the threshold, no block is freed twice or freed through a pointer *)
(* the allocator did not give, every block held is the active storage of   *)
(* exactly one live instance (none leaked), and no live heap-mode          *)
(* instance's block has been freed.                                        *)
C10_BlockAccounting ==
    ~crashed =>
        /\ fault \cap {"double_free", "invalid_free"} = {}
        /\ \A b \in Blocks : blk[b].st = "alloc" =>
               /\ Len(blk[b].mem) > Threshold
               /\ Cardinality({i \in Inst : live[i] /\ using_heap[i]
                                            /\ ActiveStorage(i) = HeapAddr(b)}) = 1
        /\ \A i \in Inst : (live[i] /\ using_heap[i] /\ IsHeap(ActiveStorage(i))) =>
               blk[BlockOf(ActiveStorage(i))].st = "alloc"

(* a copy assignment between two heap-mode containers: a block obtained    *)
(* for the copy, the old block returned                                    *)
C10_Witness ==
    /\ last.op = "assign_copy" /\ last.inst # last.src /\ ~crashed
    /\ last.res = "none" /\ ~last.afail
    /\ using_heap[last.inst] /\ using_heap[last.src]
    /\ \E b \in Blocks : blk[b].st = "free"

(* sequences, for the properties of the element order *)
IsPrefix(s, t) == Len(s) <= Len(t) /\ SubSeq(t, 1, Len(s)) = s
Without(s, n) == SubSeq(s, 1, n - 1) \o SubSeq(s, n + 1, Len(s))
PushOps == {"push_back", "push_back_move", "emplace_back"}

(* the call that made this step was made on i, returned, and the           *)
(* allocator did not fail in it                                            *)
Called(i, ops) ==
    /\ last'.op \in ops /\ last'.inst = i
    /\ ~crashed' /\ last'.res = "none" /\ ~last'.afail

(* C11: order preservation - push_back, pop_back, insert and erase leave   *)
(* the elements that survive the call in the order they had: a push keeps  *)
(* the old sequence as a prefix, a pop leaves a prefix, an insert leaves   *)
(* the old sequence around the new element, an erase leaves the old        *)
(* sequence without the erased element.                                    *)
C11_OrderPreserved ==
    [][\A i \in Inst :
           /\ Called(i, PushOps) => IsPrefix(Elems(i), Elems(i)')
           /\ Called(i, {"pop_back"}) => IsPrefix(Elems(i)', Elems(i))
           /\ Called(i, {"insert"}) =>
                  Without(Elems(i)', last'.ret[2] + 1) = Elems(i)
           /\ Called(i, {"erase"}) =>
                  \/ Elems(i)' = Elems(i)
                  \/ Without(Elems(i), last'.ret[2] + 1) = Elems(i)']_vars

(* a push of v on i in which the allocator does not fail *)
Pushes(i, v) ==
    \/ push_back(i, v, TRUE)
    \/ push_back_move(i, v, TRUE)
    \/ emplace_back(i, v, TRUE)

(* C12: round-trip growth - a default-constructed container of plain       *)
(* values is inline and empty; a push that leaves at most Threshold        *)
(* elements in an inline container leaves it inline, the push of element   *)
(* Threshold + 1 moves it to the heap, no later push brings it back, and   *)
(* every push returns with the old values and then the new one, in order.  *)
C12_RoundTripGrowth ==
    [][plain => \A i \in Inst :
           /\ Ctor_Default(i) =>
                  ~crashed' /\ using_stack_buffer(i)' /\ Elems(i)' = <<>>
           /\ \A v \in Val : Pushes(i, v) =>
                  /\ ~crashed'
                  /\ Elems(i)' = Append(Elems(i), v)
                  /\ using_stack_buffer(i) /\ size(i) < Threshold
                         => using_stack_buffer(i)'
                  /\ size(i) >= Threshold => ~using_stack_buffer(i)'
                  /\ ~using_stack_buffer(i) => ~using_stack_buffer(i)']_vars

C12_Witness ==
    /\ plain /\ Usable(1) /\ last.op \in PushOps /\ last.inst = 1
    /\ size(1) = Threshold + 1 /\ ~using_stack_buffer(1)
    /\ Elems(1)[1] = 1 /\ Elems(1)[Threshold + 1] = 0

(* what the program can see of container i *)
Observable(i) ==
    <<live[i], size(i), capacity[i], using_stack_buffer(i), data(i), Elems(i)>>

(* C13: checked access - at(k) leaves by std::out_of_range exactly when    *)
(* k >= size(), otherwise it returns a reference to element k, the one     *)
(* the element sequence holds at that index; in both outcomes the fields,  *)
(* the buffers and the heap blocks of the container are as before.         *)
C13_CheckedAccess ==
    [][\A k \in 0..(MaxCap + 1) : at(1, k) =>
           /\ ~crashed'
           /\ (k >= size(1)) <=> (last'.res = "out_of_range")
           /\ k < size(1) =>
                  /\ last'.res = "none"
                  /\ last'.ret = <<data(1), k>>
                  /\ Read(Cur, last'.ret[1], last'.ret[2]) = Elems(1)[k + 1]
           /\ Observable(1)' = Observable(1)
           /\ UNCHANGED <<buf, blk, alive>>]_vars

C13_Witness ==
    /\ Usable(1) /\ last.op = "at" /\ last.res = "out_of_range"
    /\ size(1) = Threshold + 1 /\ ~using_stack_buffer(1)

(* C14: reserve idempotence - in every reachable state reserve(n) with    *)
(* n <= capacity() returns with the size, the capacity, the mode, the      *)
(* data pointer, the elements and the storage of the container as before.  *)
C14_ReserveIdempotent ==
    [][(last'.op = "reserve" /\ last'.inst = 1) =>
           \A n \in 0..MaxCap, ok \in BOOLEAN :
               (n <= capacity[1] /\ reserve(1, n, ok)) =>
                   /\ ~crashed' /\ last'.res = "none"
                   /\ Observable(1)' = Observable(1)
                   /\ UNCHANGED <<buf, blk, alive>>]_vars

C14_Witness ==
    /\ Usable(1) /\ last.op = "reserve" /\ last.inst = 1 /\ last.res = "none"
    /\ ~using_stack_buffer(1) /\ size(1) = Threshold /\ size(1) < capacity[1]

(* C15: LIFO - on a container used as a stack every push of v returns    *)
(* with one element more, back() == v and the older elements below it,     *)
(* and every pop returns with exactly the last element gone, so k pushes   *)
(* followed by k pops read the values back in reverse order and end at     *)
(* size 0, for k up to the inline capacity and past it.                    *)
C15_Lifo ==
    [][/\ \A v \in Val : Pushes(1, v) =>
              /\ ~crashed'
              /\ size(1)' = size(1) + 1
              /\ back(1)' = v
              /\ Elems(1)' = Append(Elems(1), v)
       /\ pop_back(1) =>
              /\ ~crashed'
              /\ size(1)' = size(1) - 1
              /\ Elems(1)' = SubSeq(Elems(1), 1, size(1) - 1)]_vars

(* C16: list construction - a container built from a list of k values    *)
(* has size k and holds the values of the list in the order of the list,   *)
(* read from the storage its mode designates, for k up to the inline       *)
(* capacity and past it.                                                   *)
C16_ListConstruction ==
    [][(last'.op = "ctor_list" /\ last'.inst = 1) =>
           \A init \in Lists(Threshold + 1) : Ctor_List(1, init, TRUE) =>
               /\ ~crashed' /\ live'[1]
               /\ size(1)' = Len(init)
               /\ Elems(1)' = init
               /\ data(1)' = ActiveStorage(1)']_vars

(* C17: growth on demand - a push_back, emplace_back or single insert    *)
(* that finds count == capacity asks for twice the old capacity, or for    *)
(* the threshold when the capacity is zero.                                *)
C17_GrowthOnDemand ==
    probe.called =>
        probe.new_cap = IF probe.capacity = 0 THEN Threshold
                        ELSE 2 * probe.capacity

(* container i is in a state the invariants of mode, capacity and count   *)
(* allow                                                                   *)
Sound(i) ==
    /\ live[i]
    /\ using_stack_buffer(i) <=> capacity[i] <= Threshold
    /\ capacity[i] >= Threshold
    /\ size(i) <= capacity[i]

(* the heap block container i owns is returned to the allocator *)
Released(i) ==
    using_heap[i] /\ IsHeap(heap_ptr(Cur, i))
        => blk'[BlockOf(heap_ptr(Cur, i))].st # "alloc"

(* C18: shrink_to_fit - called on a container in a sound state with        *)
(* count < capacity it returns with capacity max(count, Threshold), inline *)
(* when count <= Threshold (a heap block it held is released) and on the   *)
(* heap otherwise, and with the size and the elements as before; with      *)
(* count == capacity it changes nothing.                                   *)
C18_ShrinkToFit ==
    [][(Sound(1) /\ shrink_to_fit(1, TRUE)) =>
           /\ ~crashed' /\ last'.res = "none"
           /\ size(1)' = size(1)
           /\ Elems(1)' = Elems(1)
           /\ size(1) < capacity[1] =>
                  /\ capacity'[1] = Max(size(1), Threshold)
                  /\ using_stack_buffer(1)' = (size(1) <= Threshold)
                  /\ using_stack_buffer(1)' => Released(1)
           /\ size(1) = capacity[1] =>
                  /\ Observable(1)' = Observable(1)
                  /\ UNCHANGED <<buf, blk, alive>>]_vars

(* C19: reserve growth - reserve(n) with n > capacity(), called on a       *)
(* container in a sound state, returns with capacity exactly               *)
(* max(n, Threshold) and with the size and the elements as before.         *)
C19_ReserveGrowth ==
    [][(last'.op = "reserve" /\ last'.inst = 1) =>
           \A n \in 0..MaxCap :
               (Sound(1) /\ n > capacity[1] /\ reserve(1, n, TRUE)) =>
                   /\ ~crashed' /\ last'.res = "none"
                   /\ capacity'[1] = Max(n, Threshold)
                   /\ size(1)' = size(1)
                   /\ Elems(1)' = Elems(1)]_vars

(* C20: single insert - insert(pos, v) with pos at index k of a container *)
(* in a sound state that holds s returns with s[0..k), v, s[k..), one      *)
(* element more, and the position of index k in the storage that is        *)
(* active after the call, with and without a reallocation.                 *)
C20_SingleInsert ==
    [][(last'.op = "insert" /\ last'.inst = 1) =>
           \A k \in 0..MaxCap, v \in Val :
               (Sound(1) /\ insert(1, k, v, TRUE)) =>
                   /\ ~crashed' /\ last'.res = "none"
                   /\ size(1)' = size(1) + 1
                   /\ Elems(1)' = SubSeq(Elems(1), 1, k) \o <<v>>
                                      \o SubSeq(Elems(1), k + 1, size(1))
                   /\ last'.ret = <<ActiveStorage(1)', k>>]_vars

(* C21: erase of valid positions - on a container in a sound state        *)
(* erase(pos) with pos at index k < size() returns with exactly element k  *)
(* gone, one element less and the position of index k; erase(first, last)  *)
(* with begin <= first < last <= end returns with exactly the elements of  *)
(* [first, last) gone, last - first elements less and the position first;  *)
(* the other elements keep their order, and the capacity and the mode are  *)
(* as before.                                                              *)
C21_EraseValid ==
    [][/\ (last'.op = "erase" /\ last'.inst = 1) =>
              \A k \in 0..MaxCap :
                  (k < size(1) /\ Sound(1) /\ erase(1, k)) =>
                      /\ ~crashed' /\ last'.res = "none"
                      /\ size(1)' = size(1) - 1
                      /\ Elems(1)' = Without(Elems(1), k + 1)
                      /\ last'.ret = <<data(1)', k>>
                      /\ capacity'[1] = capacity[1]
                      /\ using_stack_buffer(1)' = using_stack_buffer(1)
       /\ (last'.op = "erase_range" /\ last'.inst = 1) =>
              \A f \in 0..MaxCap, l \in 0..MaxCap :
                  (f < l /\ l <= size(1) /\ Sound(1) /\ erase_range(1, f, l)) =>
                      /\ ~crashed' /\ last'.res = "none"
                      /\ size(1)' = size(1) - (l - f)
                      /\ Elems(1)' = SubSeq(Elems(1), 1, f)
                                         \o SubSeq(Elems(1), l + 1, size(1))
                      /\ last'.ret = <<data(1)', f>>
                      /\ capacity'[1] = capacity[1]
                      /\ using_stack_buffer(1)' = using_stack_buffer(1)]_vars

(* the call returned and left container 1 as it was *)
Untouched ==
    /\ ~crashed' /\ last'.res = "none"
    /\ Observable(1)' = Observable(1)
    /\ UNCHANGED <<buf, blk, alive>>

(* C22: erase of invalid arguments - in every reachable state erase(pos)   *)
(* with pos outside [begin, end) returns the end position and leaves the   *)
(* container as it was; erase(first, last) with first < begin, last > end  *)
(* or first > last does the same; erase(first, last) with first == last    *)
(* inside the container returns first and leaves the size, the capacity,   *)
(* the mode and the elements as they were.                                 *)
C22_EraseInvalid ==
    [][/\ (last'.op = "erase" /\ last'.inst = 1) =>
              \A k \in (0 - 1)..MaxCap :
                  ((k < 0 \/ k >= size(1)) /\ erase(1, k)) =>
                      Untouched /\ last'.ret = <<data(1), size(1)>>
       /\ (last'.op = "erase_range" /\ last'.inst = 1) =>
              \A f \in (0 - 1)..MaxCap, l \in 0..(MaxCap + 1) :
                  /\ ((f < 0 \/ l > size(1) \/ f > l) /\ erase_range(1, f, l)) =>
                         Untouched /\ last'.ret = <<data(1), size(1)>>
                  /\ (0 <= f /\ f = l /\ l <= size(1) /\ erase_range(1, f, l)) =>
                         Untouched /\ last'.ret = <<data(1), f>>]_vars

(* an erase that has returned the end position of a container that holds  *)
(* MaxCap elements: no erase of an element leaves that many                *)
C22_Witness ==
    /\ Usable(1) /\ Sound(1) /\ last.op = "erase" /\ last.inst = 1
    /\ last.res = "none" /\ size(1) = MaxCap
    /\ last.ret = <<data(1), size(1)>>

(* C23: range insert - insert(pos, first, last) with pos at index k of a  *)
(* container in a sound state that holds s returns pos and changes nothing *)
(* when the range is empty; otherwise it returns with s[0..k), the values  *)
(* of the range in their order, s[k..), as many elements more as the       *)
(* range holds, and the position of index k in the storage that is active  *)
(* after the call, with and without a reallocation.                        *)
C23_RangeInsert ==
    [][(last'.op = "insert_range" /\ last'.inst = 1) =>
           \A k \in 0..MaxCap, xs \in Ranges :
               (k <= size(1) /\ Sound(1) /\ insert_range(1, k, xs, TRUE)) =>
                   /\ ~crashed' /\ last'.res = "none"
                   /\ Len(xs) = 0 =>
                          /\ Observable(1)' = Observable(1)
                          /\ UNCHANGED <<buf, blk, alive>>
                          /\ last'.ret = <<data(1), k>>
                   /\ Len(xs) > 0 =>
                          /\ size(1)' = size(1) + Len(xs)
                          /\ Elems(1)' = SubSeq(Elems(1), 1, k) \o xs
                                             \o SubSeq(Elems(1), k + 1, size(1))
                          /\ last'.ret = <<ActiveStorage(1)', k>>]_vars

====
